---- MODULE Spec2Model ----
(***************************************************************************)
(* Model of the QA test-case assistant: the response normalizer            *)
(* (robustJsonParse), the generation service (generateTestCases) and the   *)
(* App component's generate handler.                                       *)
(*                                                                         *)
(* Text is a sequence of one-character strings.  JavaScript string         *)
(* indices are 0-based; the helpers below keep the 0-based convention of   *)
(* the source (indexOf returns -1 when absent).                            *)
(***************************************************************************)
EXTENDS Naturals, Integers, Sequences, FiniteSets, TLC

\* ------------------------------------------------------------------------
\* Bounds of the model
\* ------------------------------------------------------------------------

\* longest text enumerated exhaustively over the parser's characters
MaxFreeLen == 3

\* most complete objects put in a generated array text
MaxObjs == 2

\* ------------------------------------------------------------------------
\* JavaScript string primitives
\* ------------------------------------------------------------------------

\* the only white-space character of the modelled alphabet
WS == {" "}

\* String.prototype.startsWith
StartsWith(t, p) ==
  /\ Len(t) >= Len(p)
  /\ SubSeq(t, 1, Len(p)) = p

\* String.prototype.endsWith
EndsWith(t, p) ==
  /\ Len(t) >= Len(p)
  /\ SubSeq(t, Len(t) - Len(p) + 1, Len(t)) = p

\* String.prototype.slice(from, to) with 0 <= from and 0 <= to
SliceTo(t, from, to) ==
  IF to <= from \/ from >= Len(t) THEN << >>
  ELSE SubSeq(t, from + 1, IF to > Len(t) THEN Len(t) ELSE to)

\* String.prototype.slice(from, -n) (n > 0) and slice(from, undefined) (n = 0)
SliceEnd(t, from, n) == SliceTo(t, from, IF Len(t) - n < 0 THEN 0 ELSE Len(t) - n)

\* String.prototype.substring(from, to): negative arguments count as 0 and
\* the two are swapped when from > to
Substring(t, from, to) ==
  LET a == IF from < 0 THEN 0 ELSE from
      b == IF to < 0 THEN 0 ELSE to
  IN  IF a <= b THEN SliceTo(t, a, b) ELSE SliceTo(t, b, a)

\* String.prototype.indexOf(c): 0-based index of the first c, -1 if none
IndexOf(t, c) ==
  IF \E i \in 1..Len(t) : t[i] = c
  THEN (CHOOSE i \in 1..Len(t) : t[i] = c /\ \A j \in 1..(i-1) : t[j] # c) - 1
  ELSE -1

\* (mutant) the first c is taken for the last one
LastIndexOfFirst(t, c) == IndexOf(t, c)

\* String.prototype.lastIndexOf(c): 0-based index of the last c, -1 if none
LastIndexOf(t, c) ==
  IF \E i \in 1..Len(t) : t[i] = c
  THEN (CHOOSE i \in 1..Len(t) : t[i] = c /\ \A j \in (i+1)..Len(t) : t[j] # c) - 1
  ELSE -1

\* String.prototype.trim
Trim(t) ==
  IF \A i \in 1..Len(t) : t[i] \in WS THEN << >>
  ELSE LET a == CHOOSE i \in 1..Len(t) : t[i] \notin WS /\ \A j \in 1..(i-1) : t[j] \in WS
           b == CHOOSE i \in 1..Len(t) : t[i] \notin WS /\ \A j \in (i+1)..Len(t) : t[j] \in WS
       IN  SubSeq(t, a, b)

\* ------------------------------------------------------------------------
\* JSON.parse
\*
\* The grammar of ECMA-404 restricted to the modelled alphabet: white space
\* is the blank, the only digit is 1 (so every digit run is a number), there
\* is no backslash, and the literals true/false/null cannot be spelled.
\* A parsed value is a record; an object keeps its keys in insertion order
\* and a repeated key keeps the last value (as JSON.parse does).
\* ------------------------------------------------------------------------

Digits == {"1"}

NoVal == [k |-> "none", s |-> << >>, keys |-> << >>, items |-> << >>]

NumVal(s) == [k |-> "num", s |-> s, keys |-> << >>, items |-> << >>]

StrVal(s) == [k |-> "str", s |-> s, keys |-> << >>, items |-> << >>]

ArrVal(items) == [k |-> "arr", s |-> << >>, keys |-> << >>, items |-> items]

ObjVal(keys, items) == [k |-> "obj", s |-> << >>, keys |-> keys, items |-> items]

ParseFail == [ok |-> FALSE, pos |-> 0, val |-> NoVal]

ParseOk(pos, val) == [ok |-> TRUE, pos |-> pos, val |-> val]

\* first position >= i (1-based) that holds no white space
RECURSIVE SkipWs(_, _)
SkipWs(t, i) == IF i <= Len(t) /\ t[i] \in WS THEN SkipWs(t, i + 1) ELSE i

\* end (1-based, exclusive) of the digit run starting at i
RECURSIVE NumEnd(_, _)
NumEnd(t, i) == IF i <= Len(t) /\ t[i] \in Digits THEN NumEnd(t, i + 1) ELSE i

\* a string literal starting at the quote at position i
ParseString(t, i) ==
  IF \E j \in (i+1)..Len(t) : t[j] = "\""
  THEN LET j == CHOOSE j \in (i+1)..Len(t) :
                   t[j] = "\"" /\ \A m \in (i+1)..(j-1) : t[m] # "\""
       IN  ParseOk(j + 1, StrVal(SubSeq(t, i + 1, j - 1)))
  ELSE ParseFail

\* a number starting at the digit at position i
ParseNumber(t, i) == ParseOk(NumEnd(t, i), NumVal(SubSeq(t, i, NumEnd(t, i) - 1)))

\* object member insertion: a repeated key keeps its place and takes the new value
PutMember(o, key, val) ==
  IF \E n \in 1..Len(o.keys) : o.keys[n] = key
  THEN LET n == CHOOSE n \in 1..Len(o.keys) : o.keys[n] = key
       IN  ObjVal(o.keys, [o.items EXCEPT ![n] = val])
  ELSE ObjVal(Append(o.keys, key), Append(o.items, val))

RECURSIVE ParseValue(_, _)
RECURSIVE ParseElems(_, _, _)
RECURSIVE ParseMembers(_, _, _)

\* the elements of an array after its "[" or after a ",", up to its "]"
ParseElems(t, i, acc) ==
  LET v == ParseValue(t, i)
      k == SkipWs(t, v.pos)
  IN  IF ~v.ok \/ k > Len(t) THEN ParseFail
      ELSE IF t[k] = "," THEN ParseElems(t, k + 1, Append(acc, v.val))
      ELSE IF t[k] = "]" THEN ParseOk(k + 1, ArrVal(Append(acc, v.val)))
      ELSE ParseFail

\* the members of an object after its "{" or after a ",", up to its "}"
ParseMembers(t, i, acc) ==
  LET a == SkipWs(t, i)
  IN  IF a > Len(t) \/ t[a] # "\"" THEN ParseFail
      ELSE LET key == ParseString(t, a)
               c   == SkipWs(t, key.pos)
           IN  IF ~key.ok \/ c > Len(t) \/ t[c] # ":" THEN ParseFail
               ELSE LET v == ParseValue(t, c + 1)
                        k == SkipWs(t, v.pos)
                    IN  IF ~v.ok \/ k > Len(t) THEN ParseFail
                        ELSE IF t[k] = ","
                             THEN ParseMembers(t, k + 1, PutMember(acc, key.val.s, v.val))
                        ELSE IF t[k] = "}"
                             THEN ParseOk(k + 1, PutMember(acc, key.val.s, v.val))
                        ELSE ParseFail

\* one JSON value starting at or after position i (leading white space skipped)
ParseValue(t, i) ==
  LET j == SkipWs(t, i)
  IN  IF j > Len(t) THEN ParseFail
      ELSE IF t[j] = "\"" THEN ParseString(t, j)
      ELSE IF t[j] \in Digits THEN ParseNumber(t, j)
      ELSE IF t[j] = "["
           THEN LET k == SkipWs(t, j + 1)
                IN  IF k <= Len(t) /\ t[k] = "]" THEN ParseOk(k + 1, ArrVal(<< >>))
                    ELSE ParseElems(t, j + 1, << >>)
      ELSE IF t[j] = "{"
           THEN LET k == SkipWs(t, j + 1)
                IN  IF k <= Len(t) /\ t[k] = "}" THEN ParseOk(k + 1, ObjVal(<< >>, << >>))
                    ELSE ParseMembers(t, j + 1, ObjVal(<< >>, << >>))
      ELSE ParseFail

\* JSON.parse(text): one value, nothing but white space after it
JSONParse(t) ==
  LET v == ParseValue(t, 1)
  IN  IF v.ok /\ SkipWs(t, v.pos) > Len(t) THEN [ok |-> TRUE, val |-> v.val]
      ELSE [ok |-> FALSE, val |-> NoVal]

\* Array.isArray
IsArray(v) == v.k = "arr"

\* ------------------------------------------------------------------------
\* robustJsonParse
\* ------------------------------------------------------------------------

\* the backquote character (written ^ here: the TLA+ lexer accepts no
\* backquote inside a string); ^ itself is not part of the modelled alphabet
BQ == "^"

Fence == <<BQ, BQ, BQ>>

FenceJson == <<BQ, BQ, BQ, "j", "s", "o", "n">>

ErrNoArray == "The AI returned a response that does not appear to be a JSON array."

ErrMalformed == "The AI returned a malformed response that could not be parsed. Please try simplifying your request or regenerating."

\* (mutant) the closing fence is never cut off
ClosingCutNever(text) == 0

\* the closing fence is cut off only when the text ends with it
ClosingCut(text) == IF EndsWith(text, Fence) THEN 3 ELSE 0

\* "Remove markdown code block fences"
StripFences(text) ==
  IF StartsWith(text, FenceJson) THEN Trim(SliceEnd(text, 7, ClosingCut(text)))
  ELSE IF StartsWith(text, Fence) THEN Trim(SliceEnd(text, 3, ClosingCut(text)))
  ELSE text

\* (mutant) the result of the first attempt is dropped instead of returned
DirectParseDiscarded(text) == [ok |-> FALSE, val |-> NoVal]

\* the first attempt: JSON.parse of the stripped text
DirectParse(text) == JSONParse(text)

\* (mutant) only a text without any "}" counts as holding no objects
NoObjectsNoBrace(startIndex, lastBraceIndex) == lastBraceIndex = -1

\* "If there are no objects, we might have an empty or truncated empty array."
NoObjects(startIndex, lastBraceIndex) == lastBraceIndex < startIndex

\* (mutant) the slice is not closed
PotentialJsonUnclosed(text, startIndex, lastBraceIndex) ==
  Substring(text, startIndex, lastBraceIndex + 1)

\* the slice from the start of the array to the end of the last object, closed with "]"
PotentialJson(text, startIndex, lastBraceIndex) ==
  Substring(text, startIndex, lastBraceIndex + 1) \o <<"]">>

\* (mutant) the slice is taken one character in on both sides
FinalAttemptStrInner(text, startIndex, lastBraceIndex) ==
  Substring(text, startIndex + 1, lastBraceIndex)

\* "parsing just up to the last valid brace"
FinalAttemptStr(text, startIndex, lastBraceIndex) ==
  Substring(text, startIndex, lastBraceIndex + 1)

\* Array.isArray(parsed) ? parsed : [parsed]
WrapArray(parsed) == IF IsArray(parsed) THEN parsed ELSE ArrVal(<<parsed>>)

Returned(val, steps) == [threw |-> FALSE, err |-> "", val |-> val, steps |-> steps]

Thrown(msg, steps) == [threw |-> TRUE, err |-> msg, val |-> NoVal, steps |-> steps]

\* the repair ladder taken once the direct parse has thrown
Repair(text) ==
  LET startIndex     == IndexOf(text, "[")
      lastBraceIndex == LastIndexOf(text, "}")
      potentialJson  == PotentialJson(text, startIndex, lastBraceIndex)
      repaired       == JSONParse(potentialJson)
      finalAttempt   == JSONParse(FinalAttemptStr(text, startIndex, lastBraceIndex))
  IN  IF startIndex = -1 THEN Thrown(ErrNoArray, <<"direct", "locate">>)
      ELSE IF NoObjects(startIndex, lastBraceIndex)
           THEN Returned(ArrVal(<< >>), <<"direct", "locate">>)
      ELSE IF repaired.ok
           THEN Returned(WrapArray(repaired.val), <<"direct", "locate", "repair">>)
      ELSE IF finalAttempt.ok
           THEN Returned(WrapArray(finalAttempt.val), <<"direct", "locate", "repair", "final">>)
      ELSE Thrown(ErrMalformed, <<"direct", "locate", "repair", "final">>)

\* robustJsonParse(jsonString): the value returned or the Error thrown, and
\* the parse attempts made on the way (steps)
RobustJsonParse(jsonString) ==
  LET text   == StripFences(Trim(jsonString))
      direct == DirectParse(text)
  IN  IF direct.ok THEN Returned(direct.val, <<"direct">>)
      ELSE Repair(text)

\* ------------------------------------------------------------------------
\* Raw texts handed to the normalizer
\*
\* Keys and enum values of a test case are shortened to one character:
\* i = testCaseId, t = type, d = domain, s = suiteType, u = status;
\* P/N/E = Positive/Negative/Edge, F/U = Functional/UI/UX,
\* R/S/A = Regression/Smoke/Sanity, T = Untested, X = Pass.
\* ------------------------------------------------------------------------

Q == "\""

Range(t) == {t[n] : n \in 1..Len(t)}

\* "key":"value"
Member(key, value) == <<Q, key, Q, ":", Q, value, Q>>

RECURSIVE JoinWith(_, _)
JoinWith(texts, sep) ==
  IF texts = << >> THEN << >>
  ELSE IF Len(texts) = 1 THEN texts[1]
  ELSE texts[1] \o sep \o JoinWith(Tail(texts), sep)

\* { member, member, ... }
ObjText(members) == <<"{">> \o JoinWith(members, <<",">>) \o <<"}">>

ObjId == ObjText(<<Member("i", "1")>>)

\* the objects of the payloads: empty, an id, an id holding a brace, an id and a domain
ObjTexts ==
  {ObjText(<< >>), ObjId, ObjText(<<Member("i", "}")>>),
   ObjText(<<Member("i", "1"), Member("d", "U")>>)}

\* every text of at most MaxFreeLen characters that matter to the parser
FreeTexts == UNION {[1..n -> {"[", "]", "{", "}", ",", "1", " "}] : n \in 0..MaxFreeLen}

DecorText(d) ==
  IF d = "json" THEN <<"j", "s", "o", "n">>
  ELSE IF d = "fenced" THEN Fence
  ELSE << >>

Fences == {"none", "bare", "json"}

Gaps == {<< >>, <<" ">>}

\* the text of an array of complete objects, an optional cut-off object (a
\* proper, non-empty prefix of an object text), and what follows the last
\* complete object: the closing bracket, nothing, a trailing comma before the
\* bracket, junk after the bracket
ArrayText(objs, partial, tail) ==
  <<"[">> \o JoinWith(objs, <<",">>)
          \o (IF partial # << >> /\ objs # << >> THEN <<",">> ELSE << >>)
          \o partial \o tail

ArrayInputs ==
  {[fam |-> "arr", objs |-> objs, partial |-> partial, tail |-> tail,
    payload |-> ArrayText(objs, partial, tail), fence |-> f, gap |-> g] :
     objs \in UNION {[1..n -> ObjTexts] : n \in 0..MaxObjs},
     partial \in {<< >>} \cup
                 UNION {{SubSeq(o, 1, n) : n \in 1..(Len(o) - 1)} : o \in ObjTexts},
     tail \in {<<"]">>, << >>, <<",", "]">>, <<"]", ",", "j">>},
     f \in Fences, g \in Gaps}

\* a free text is put between nothing, after a leading "json", or in its own fences
FreeInputs ==
  {[fam |-> "free", objs |-> << >>, partial |-> << >>, tail |-> << >>,
    payload |-> DecorText(d[1]) \o body \o DecorText(d[2]), fence |-> f, gap |-> g] :
     d \in {<<"", "">>, <<"json", "">>, <<"fenced", "fenced">>}, body \in FreeTexts, f \in Fences, g \in Gaps}

\* a cut-off array has no tail, and an unfenced text has no gap
WellFormedInput(in) ==
  /\ in.partial # << >> => in.tail = << >>
  /\ in.fence = "none" => in.gap = << >>

Inputs == {in \in ArrayInputs \cup FreeInputs : WellFormedInput(in)}

\* the payload as the model sends it: bare, or between markdown code fences
Wrapped(fence, gap, payload) ==
  IF fence = "json" THEN FenceJson \o gap \o payload \o gap \o Fence
  ELSE IF fence = "bare" THEN Fence \o gap \o payload \o gap \o Fence
  ELSE payload

Raw(in) == Wrapped(in.fence, in.gap, in.payload)

\* ------------------------------------------------------------------------
\* geminiService: createPrompt, fileToGenerativePart, generateTestCases
\* ------------------------------------------------------------------------

\* most images attached to one request
MaxImages == 2

\* let aiInstance: TRUE once the client has been created
VARIABLE aiInstance

\* the lists of at most MaxImages files out of two files, p and q
ImageLists == UNION {[1..n -> {"p", "q"}] : n \in 0..MaxImages}

ErrApiKeyMissing == "API_KEY is not configured. Please set the API_KEY environment variable in your hosting provider's settings."

ErrNoInput == "Please provide at least one input: PRD text, a Figma link, or an image."

ErrEmpty == "Received an empty response from the AI. The model may have refused to answer."

ErrNotList == "The AI response was not in the expected format (a list of test cases)."

ErrApiKeyInvalid == "The configured API key is invalid. Please check your environment variables."

ErrUnknown == "An unknown error occurred while generating test cases. Please check the console for details."

\* messages of the Errors the generation call rejects with
MsgApiKeyNotValid == "[400] API key not valid. Please pass a valid API key."

MsgFetchFailed == "fetch failed"

\* error.message.includes("API key not valid")
IncludesApiKeyNotValid(msg) == msg = MsgApiKeyNotValid

\* The instruction text is a sequence of tokens: a token is one piece of
\* fixed wording, a line break, or one token of a text the caller typed.

NL == "\n"

NotProvided == "Not provided."

PrdHeading == "**1. Product Requirements Document (PRD) Content:**"

FigmaHeading == "**2. Figma Design Link (for UI/UX reference):**"

ImageHeading == "**3. Uploaded Images (for UI/UX and functional reference):**"

ImageHeadingOpen == "**3. Uploaded Images ("

ImageHeadingClose == ") (for UI/UX and functional reference):**"

ImagesProvided == "Images have been provided. Analyze them in conjunction with other provided materials to understand the UI, layout, and functionality."

Rule == "---"

Mission == "You are an exceptionally meticulous and detail-oriented Senior QA Engineer. ... **Your Mission:** ... ensure zero defects escape to production."

AnalyzeInputs == "**Analyze the following inputs with extreme care. Generate test cases based on the information that has been provided:**"

YourTask == "**Your Task:** ... Return the output as a JSON array of objects, strictly conforming to the provided JSON schema. ... Your response must be only the raw JSON."

\* ${imageCount}: the decimal digits of a count below ten
Decimal(n) == <<"0", "1", "2", "3", "4", "5", "6", "7", "8", "9">>[n + 1]

PrdSection(prdText) ==
  IF prdText # << >>
  THEN <<PrdHeading, NL>> \o Fence \o <<NL>> \o prdText \o <<NL>> \o Fence
  ELSE <<PrdHeading, NL, NotProvided>>

FigmaSection(figmaLink) ==
  IF figmaLink # << >>
  THEN <<FigmaHeading, NL>> \o figmaLink
  ELSE <<FigmaHeading, NL, NotProvided>>

\* (mutant) without images the third section is left out
ImageSectionOmitted(imageCount) ==
  IF imageCount > 0
  THEN <<ImageHeadingOpen, Decimal(imageCount), ImageHeadingClose, NL, ImagesProvided>>
  ELSE << >>

ImageSection(imageCount) ==
  IF imageCount > 0
  THEN <<ImageHeadingOpen, Decimal(imageCount), ImageHeadingClose, NL, ImagesProvided>>
  ELSE <<ImageHeading, NL, NotProvided>>

FocusSection(focusPrompt) ==
  IF focusPrompt # << >>
  THEN <<"**Primary Focus for this Generation:**", NL, Rule, NL>> \o focusPrompt \o <<NL, Rule, NL>>
  ELSE << >>

\* (mutant) the text depends on whether the client has been created
CreatePromptStateful(prdText, figmaLink, imageCount, focusPrompt) ==
  <<NL, Mission, NL, NL>>
    \o (IF aiInstance THEN << >> ELSE FocusSection(focusPrompt))
    \o <<NL, NL, AnalyzeInputs, NL, NL>>
    \o PrdSection(prdText) \o <<NL, NL>>
    \o FigmaSection(figmaLink) \o <<NL, NL>>
    \o ImageSection(imageCount) \o <<NL, NL, YourTask, NL>>

\* createPrompt(prdText, figmaLink, imageCount, focusPrompt)
CreatePrompt(prdText, figmaLink, imageCount, focusPrompt) ==
  <<NL, Mission, NL, NL>>
    \o FocusSection(focusPrompt)
    \o <<NL, NL, AnalyzeInputs, NL, NL>>
    \o PrdSection(prdText) \o <<NL, NL>>
    \o FigmaSection(figmaLink) \o <<NL, NL>>
    \o ImageSection(imageCount) \o <<NL, NL, YourTask, NL>>

TextPart(prompt) == [kind |-> "text", text |-> prompt, data |-> "", mimeType |-> ""]

\* fileToGenerativePart(file): the data URL of a file is
\* "data:<type>;base64,<payload>", and split(',')[1] is the payload
FileToGenerativePart(file) ==
  [kind |-> "inlineData", text |-> << >>,
   data |-> IF file = "p" THEN "cA==" ELSE "cQ==", mimeType |-> "image/png"]

\* what the awaited generateContent call settles with
RText(t) == [kind |-> "text", text |-> t, msg |-> ""]

RAbsent == [kind |-> "absent", text |-> << >>, msg |-> ""]

RError(m) == [kind |-> "error", text |-> << >>, msg |-> m]

NoResponse == [kind |-> "none", text |-> << >>, msg |-> ""]

\* (mutant) the request is not validated
NoInputSkipped(prdText, figmaLink, imageFiles) == FALSE

\* (mutant) the texts are tested without being trimmed
NoInputUntrimmed(prdText, figmaLink, imageFiles) ==
  prdText = << >> /\ figmaLink = << >> /\ Len(imageFiles) = 0

\* !prdText.trim() && !figmaLink.trim() && imageFiles.length === 0
NoInput(prdText, figmaLink, imageFiles) ==
  Trim(prdText) = << >> /\ Trim(figmaLink) = << >> /\ Len(imageFiles) = 0

\* !responseText
IsEmptyText(response) == response.kind = "absent" \/ response.text = << >>

\* (mutant) the text is parsed before it is tested for emptiness
NormalizeResponseParseFirst(response) ==
  LET parsedJson == RobustJsonParse(response.text)
  IN  IF parsedJson.threw
      THEN [threw |-> TRUE, err |-> parsedJson.err, val |-> NoVal, parses |-> 1]
      ELSE IF IsEmptyText(response)
      THEN [threw |-> TRUE, err |-> ErrEmpty, val |-> NoVal, parses |-> 1]
      ELSE IF ~IsArray(parsedJson.val)
      THEN [threw |-> TRUE, err |-> ErrNotList, val |-> NoVal, parses |-> 1]
      ELSE [threw |-> FALSE, err |-> "", val |-> parsedJson.val, parses |-> 1]

\* (mutant) the Array.isArray check is missing
NormalizeResponseUnchecked(response) ==
  IF IsEmptyText(response)
  THEN [threw |-> TRUE, err |-> ErrEmpty, val |-> NoVal, parses |-> 0]
  ELSE LET parsedJson == RobustJsonParse(response.text)
       IN  IF parsedJson.threw
           THEN [threw |-> TRUE, err |-> parsedJson.err, val |-> NoVal, parses |-> 1]
           ELSE [threw |-> FALSE, err |-> "", val |-> parsedJson.val, parses |-> 1]

\* what follows the call of robustJsonParse in the try block: an Error it
\* threw propagates, a value that is no array is rejected
ExpectArray(parsedJson) ==
  IF parsedJson.threw
  THEN [threw |-> TRUE, err |-> parsedJson.err, val |-> NoVal, parses |-> 1]
  ELSE IF ~IsArray(parsedJson.val)
  THEN [threw |-> TRUE, err |-> ErrNotList, val |-> NoVal, parses |-> 1]
  ELSE [threw |-> FALSE, err |-> "", val |-> parsedJson.val, parses |-> 1]

\* the body of the try block once the call has resolved: the empty check,
\* robustJsonParse, the Array.isArray check.  parses counts the calls of
\* robustJsonParse.
NormalizeResponse(response) ==
  IF IsEmptyText(response)
  THEN [threw |-> TRUE, err |-> ErrEmpty, val |-> NoVal, parses |-> 0]
  ELSE ExpectArray(RobustJsonParse(response.text))

\* (mutant) every caught Error without the signature is replaced by the generic one
RethrownGeneric(msg) == IF IncludesApiKeyNotValid(msg) THEN ErrApiKeyInvalid ELSE ErrUnknown

\* the catch block for a caught Error with this message
Rethrown(msg) == IF IncludesApiKeyNotValid(msg) THEN ErrApiKeyInvalid ELSE msg

\* the try block's outcome n seen through the catch block: an Error thrown
\* inside the try block is caught too
Caught(n) == IF n.threw THEN [n EXCEPT !.err = Rethrown(n.err)] ELSE n

\* how the promise of generateTestCases settles once the call has settled
Settlement(response) ==
  IF response.kind = "error"
  THEN [threw |-> TRUE, err |-> Rethrown(response.msg), val |-> NoVal, parses |-> 0]
  ELSE IF response.kind = "nonError"
  THEN [threw |-> TRUE, err |-> ErrUnknown, val |-> NoVal, parses |-> 0]
  ELSE Caught(NormalizeResponse(response))

\* one invocation of generateTestCases
NoReq ==
  [pc |-> "idle", prdText |-> << >>, figmaLink |-> << >>, imageFiles |-> << >>,
   focusPrompt |-> << >>, parts |-> << >>, encoded |-> 0, calls |-> 0, parses |-> 0,
   response |-> NoResponse, err |-> "", val |-> NoVal]

\* the synchronous prefix of generateTestCases, up to its first await
\* (aiReady: getAiInstance returns a client)
Invocation(aiReady, prdText, figmaLink, imageFiles, focusPrompt) ==
  LET called == [NoReq EXCEPT !.prdText = prdText, !.figmaLink = figmaLink,
                              !.imageFiles = imageFiles, !.focusPrompt = focusPrompt]
      prompt == CreatePrompt(prdText, figmaLink, Len(imageFiles), focusPrompt)
  IN  IF ~aiReady THEN [called EXCEPT !.pc = "thrown", !.err = ErrApiKeyMissing]
      ELSE IF NoInput(prdText, figmaLink, imageFiles)
           THEN [called EXCEPT !.pc = "thrown", !.err = ErrNoInput]
      ELSE IF Len(imageFiles) > 0
           THEN [called EXCEPT !.pc = "encoding", !.parts = <<TextPart(prompt)>>]
      ELSE [called EXCEPT !.pc = "calling", !.parts = <<TextPart(prompt)>>, !.calls = 1]

\* texts the generation call answers with
TcFull == ObjText(<<Member("i", "1"), Member("t", "N"), Member("d", "U"), Member("s", "S"), Member("u", "X")>>)

ResponseTexts ==
  { << >>,
    <<" ">>,
    <<"[", "]">>,
    ArrayText(<<TcFull>>, << >>, <<"]">>),
    ArrayText(<<ObjId>>, << >>, <<"]">>),
    ArrayText(<<ObjId>>, SubSeq(TcFull, 1, 4), << >>),
    Wrapped("json", <<" ">>, ArrayText(<<TcFull>>, << >>, <<"]">>)),
    ObjId,
    <<"1">>,
    <<"j">>,
    <<"[", "1", "}">> }

Responses ==
  {RText(t) : t \in ResponseTexts} \cup {RAbsent}
    \cup {[kind |-> "nonError", text |-> << >>, msg |-> ""]}
    \cup {RError(m) : m \in {MsgApiKeyNotValid, MsgFetchFailed}}

\* ------------------------------------------------------------------------
\* App: test cases, history, the generate handler
\* ------------------------------------------------------------------------

\* most history entries created in one run of the model
MaxEntries == 2

Users == {"a@x.io", "b@x.io"}

\* currentUser === null
NoUser == ""

\* what the generation call settles with in the App model
\* a test case that names its id and a status, and no type, domain or suite
ObjIdStatus == ObjText(<<Member("i", "1"), Member("u", "X")>>)

AppResponses ==
  { RText(ArrayText(<<ObjIdStatus>>, << >>, <<"]">>)),
    RAbsent,
    RError(MsgFetchFailed) }

\* obj[key], undefined (NoVal) when the object has no such key
Get(obj, key) ==
  IF \E n \in 1..Len(obj.keys) : obj.keys[n] = key
  THEN obj.items[CHOOSE n \in 1..Len(obj.keys) : obj.keys[n] = key]
  ELSE NoVal

\* the property name of the array index n (0..9)
IndexKey(n) == <<<<"0", "1", "2", "3", "4", "5", "6", "7", "8", "9">>[n + 1]>>

\* { ...v }: the own enumerable properties of a value
Spread(v) ==
  IF v.k = "obj" THEN v
  ELSE IF v.k = "arr" THEN ObjVal([n \in 1..Len(v.items) |-> IndexKey(n - 1)], v.items)
  ELSE IF v.k = "str"
       THEN ObjVal([n \in 1..Len(v.s) |-> IndexKey(n - 1)], [n \in 1..Len(v.s) |-> StrVal(<<v.s[n]>>)])
  ELSE ObjVal(<< >>, << >>)

KeyId == <<"i">>

KeyType == <<"t">>

KeyDomain == <<"d">>

KeySuiteType == <<"s">>

KeyStatus == <<"u">>

Untested == StrVal(<<"T">>)

Positive == StrVal(<<"P">>)

Functional == StrVal(<<"F">>)

Regression == StrVal(<<"R">>)

\* a || b for a string-valued property: undefined and "" are falsy
OrElse(v, default) == IF v = NoVal \/ v = StrVal(<< >>) THEN default ELSE v

\* what TypeBadge renders for a test case
TypeBadge(tc) == Get(tc, KeyType)

\* what DomainBadge renders: "Default to Functional if domain is somehow missing"
DomainBadge(tc) == OrElse(Get(tc, KeyDomain), Functional)

\* what SuiteTypeBadge renders: "Default to Regression for old history items"
SuiteTypeBadge(tc) == OrElse(Get(tc, KeySuiteType), Regression)

\* (mutant) a status named by the payload is kept
WithStatusOfPayload(results) ==
  [n \in 1..Len(results) |->
     PutMember(Spread(results[n]), KeyStatus, OrElse(Get(results[n], KeyStatus), Untested))]

\* results.map(tc => ({ ...tc, status: TestCaseStatus.Untested }))
WithStatus(results) ==
  [n \in 1..Len(results) |-> PutMember(Spread(results[n]), KeyStatus, Untested)]

\* entry.testCases.map(tc => ({ ...tc, status: tc.status || TestCaseStatus.Untested }))
WithStatusKept(cases) ==
  [n \in 1..Len(cases) |->
     PutMember(Spread(cases[n]), KeyStatus, OrElse(Get(cases[n], KeyStatus), Untested))]

\* fileToBase64(img): the data URL of the file
FileToBase64(file) == IF file = "p" THEN "data:image/png;base64,cA==" ELSE "data:image/png;base64,cQ=="

\* images.map(img => ({ base64, name: img.name }))
ImageDatas(imgs) == [n \in 1..Len(imgs) |-> [base64 |-> FileToBase64(imgs[n]), name |-> imgs[n]]]

\* the HistoryEntry of a generation (images: undefined is the empty list)
NewEntry(id, prd, link, focus, imageDatas, cases) ==
  [id |-> id, prdText |-> prd, figmaLink |-> link, focusPrompt |-> focus,
   images |-> imageDatas, testCases |-> cases]

\* (mutant) the first entry is dropped, whatever its id
WithoutIdFirst(h, id) == Tail(h)

\* history.filter(item => item.id !== id)
RECURSIVE WithoutId(_, _)
WithoutId(h, id) ==
  IF h = << >> THEN << >>
  ELSE IF h[1].id = id THEN WithoutId(Tail(h), id)
  ELSE <<h[1]>> \o WithoutId(Tail(h), id)

\* canGenerate of InputArea
CanGenerate(prd, link, imgs) == Trim(prd) # << >> \/ Trim(link) # << >> \/ Len(imgs) > 0

\* the handleGenerate call in flight: the values its closure captured
NoJob ==
  [pc |-> "idle", user |-> NoUser, prdText |-> << >>, figmaLink |-> << >>,
   focusPrompt |-> << >>, images |-> << >>, history |-> << >>, results |-> << >>]

\* ------------------------------------------------------------------------
\* State
\* ------------------------------------------------------------------------

VARIABLES
  input,       \* the raw text under normalization and how it was built
  outcome,     \* what robustJsonParse returned or threw for it
  normalized,  \* what the try block of generateTestCases makes of that text
  ppc,         \* "ready" before the normalization, "done" after it
  lastCall,    \* the latest call of createPrompt: its arguments and its text
  keptCall,    \* some earlier call of createPrompt
  apiKey,      \* process.env.API_KEY ("" when not set)
  req,         \* the current invocation of generateTestCases
  currentUser, \* the logged-in user's email, NoUser when logged out
  prdText,     \* form field
  figmaLink,   \* form field
  focusPrompt, \* form field
  images,      \* attached image files
  testCases,   \* the displayed test cases
  isLoading,
  error,       \* the displayed error message, "" for null
  history,     \* the in-memory history list
  storage,     \* localStorage: the history list saved per user
  job,         \* the handleGenerate call in flight
  shared,      \* id of the history entry that holds the very objects displayed, 0 if none
  owner,       \* owner[id]: the user whose request created the entry id
  now,         \* Date.now()
  users,       \* localStorage: the accounts stored under qa_assistant_users
  authError    \* the error message the Auth form displays, "" for none

parseVars == <<input, outcome, normalized, ppc>>

serviceVars == <<apiKey, aiInstance, req>>

formVars == <<prdText, figmaLink, focusPrompt, images>>

authVars == <<users, authError>>

appVars ==
  <<currentUser, formVars, testCases, isLoading, error, history, storage, job, shared, owner, now,
    authVars>>

promptVars == <<lastCall, keptCall>>

vars == <<parseVars, promptVars, serviceVars, appVars>>

NoOutcome == [threw |-> FALSE, err |-> "", val |-> NoVal, steps |-> << >>]

NoNormalized == [threw |-> FALSE, err |-> "", val |-> NoVal, parses |-> 0]

ParseIdle ==
  /\ input = [fam |-> "free", objs |-> << >>, partial |-> << >>, tail |-> << >>,
              payload |-> << >>, fence |-> "none", gap |-> << >>]
  /\ outcome = NoOutcome
  /\ normalized = NoNormalized
  /\ ppc = "ready"

\* a call of createPrompt: its arguments and the text it returned
NoCall ==
  [called |-> FALSE, prdText |-> << >>, figmaLink |-> << >>, imageCount |-> 0,
   focusPrompt |-> << >>, text |-> << >>]

PromptIdle ==
  /\ lastCall = NoCall
  /\ keptCall = NoCall

ServiceInit ==
  /\ apiKey \in {"", "key"}
  /\ aiInstance = FALSE
  /\ req = NoReq

\* the App component after its first render, nobody logged in
AppInit ==
  /\ currentUser = NoUser
  /\ prdText = << >>
  /\ figmaLink = << >>
  /\ focusPrompt = << >>
  /\ images = << >>
  /\ testCases = << >>
  /\ isLoading = FALSE
  /\ error = ""
  /\ history = << >>
  /\ storage = [u \in Users |-> << >>]
  /\ job = NoJob
  /\ shared = 0
  /\ owner = << >>
  /\ now = 1
  /\ users = << >>
  /\ authError = ""

\* --- the normalizer applied to one raw text ------------------------------

InitParse ==
  /\ input \in Inputs
  /\ outcome = NoOutcome
  /\ normalized = NoNormalized
  /\ ppc = "ready"
  /\ PromptIdle
  /\ apiKey = "key"
  /\ aiInstance = FALSE
  /\ req = NoReq
  /\ AppInit

\* robustJsonParse(raw), and the try block of generateTestCases on the same text
Normalize ==
  /\ ppc = "ready"
  /\ outcome' = RobustJsonParse(Raw(input))
  /\ normalized' = NormalizeResponse(RText(Raw(input)))
  /\ ppc' = "done"
  /\ UNCHANGED <<input, promptVars, serviceVars, appVars>>

SpecParse == InitParse /\ [][Normalize]_vars

\* --- generateTestCases ----------------------------------------------------

Settled(r) == r.pc \in {"returned", "thrown"}

\* a call generateTestCases(prdText, figmaLink, imageFiles, focusPrompt):
\* getAiInstance and everything up to the first await
GenerateTestCases ==
  /\ req.pc = "idle" \/ Settled(req)
  /\ \E p \in {<< >>, <<" ">>, <<"d">>}, l \in {<< >>, <<" ">>, <<"f">>, <<NotProvided>>},
        imgs \in ImageLists, fo \in {<< >>, <<"o">>} :
        /\ aiInstance' = (aiInstance \/ apiKey # "")
        /\ req' = Invocation(aiInstance \/ apiKey # "", p, l, imgs, fo)
  /\ UNCHANGED <<parseVars, promptVars, apiKey, appVars>>

\* (mutant) the image parts are pushed as the encodings complete, the latest
\* one right behind the instruction text
EncodeDoneUnordered ==
  /\ req.pc = "encoding"
  /\ LET part == FileToGenerativePart(req.imageFiles[req.encoded + 1])
         last == req.encoded + 1 = Len(req.imageFiles)
     IN  req' = [req EXCEPT !.parts = <<@[1], part>> \o Tail(@),
                            !.encoded = @ + 1,
                            !.pc = IF last THEN "calling" ELSE "encoding",
                            !.calls = IF last THEN @ + 1 ELSE @]
  /\ UNCHANGED <<parseVars, promptVars, apiKey, aiInstance, appVars>>

\* an awaited fileToGenerativePart resolves; after the last one the call is issued
EncodeDone ==
  /\ req.pc = "encoding"
  /\ LET part == FileToGenerativePart(req.imageFiles[req.encoded + 1])
         last == req.encoded + 1 = Len(req.imageFiles)
     IN  req' = [req EXCEPT !.parts = Append(@, part),
                            !.encoded = @ + 1,
                            !.pc = IF last THEN "calling" ELSE "encoding",
                            !.calls = IF last THEN @ + 1 ELSE @]
  /\ UNCHANGED <<parseVars, promptVars, apiKey, aiInstance, appVars>>

\* (mutant) after a failure the generation call is issued once more
SettledWithRetry(rq, r, s) ==
  IF s.threw /\ rq.calls = 1
  THEN [rq EXCEPT !.calls = 2, !.response = r]
  ELSE [rq EXCEPT !.pc = IF s.threw THEN "thrown" ELSE "returned",
                  !.response = r,
                  !.err = s.err,
                  !.val = s.val,
                  !.parses = s.parses]

\* the invocation rq after its call has settled with r and the function has
\* run to its end s
SettledWith(rq, r, s) ==
  [rq EXCEPT !.pc = IF s.threw THEN "thrown" ELSE "returned",
             !.response = r,
             !.err = s.err,
             !.val = s.val,
             !.parses = s.parses]

\* the awaited generateContent call settles with one of rs; the rest of the
\* function runs
RespondWith(rs) ==
  /\ req.pc = "calling"
  /\ \E r \in rs : req' = SettledWith(req, r, Settlement(r))
  /\ UNCHANGED <<parseVars, promptVars, apiKey, aiInstance, appVars>>

Respond == RespondWith(Responses)

InitService == ParseIdle /\ PromptIdle /\ ServiceInit /\ AppInit

NextService == GenerateTestCases \/ EncodeDone \/ Respond

SpecService == InitService /\ [][NextService]_vars

\* --- createPrompt called on its own ----------------------------------------

\* the texts createPrompt is called with: empty, one character, the marker itself
PromptTexts(c) == {<< >>, <<c>>, <<NotProvided>>}

PromptCall(p, l, n, fo) ==
  [called |-> TRUE, prdText |-> p, figmaLink |-> l, imageCount |-> n,
   focusPrompt |-> fo, text |-> CreatePrompt(p, l, n, fo)]

\* one call createPrompt(p, l, n, fo); the call before it is kept or forgotten
CreatePromptCalled ==
  /\ \E p \in PromptTexts("d"), l \in PromptTexts("f"), n \in 0..MaxImages,
        fo \in PromptTexts("o") :
        lastCall' = PromptCall(p, l, n, fo)
  /\ keptCall' \in {keptCall, lastCall}
  /\ UNCHANGED <<parseVars, serviceVars, appVars>>

\* a call of getAiInstance between two calls of createPrompt
GetAiInstance ==
  /\ ~aiInstance
  /\ apiKey # ""
  /\ aiInstance' = TRUE
  /\ UNCHANGED <<parseVars, promptVars, apiKey, req, appVars>>

InitPrompt ==
  /\ ParseIdle
  /\ PromptIdle
  /\ apiKey = "key"
  /\ aiInstance = FALSE
  /\ req = NoReq
  /\ AppInit

NextPrompt == CreatePromptCalled \/ GetAiInstance

SpecPrompt == InitPrompt /\ [][NextPrompt]_vars

\* --- App -------------------------------------------------------------------

AppRespond == RespondWith(AppResponses)

\* handleLogin(user) for one of the users us, then the effect on
\* currentUser that loads the history
HandleLoginOf(us) ==
  /\ currentUser = NoUser
  /\ \E u \in us :
        /\ currentUser' = u
        /\ history' = storage[u]
  /\ UNCHANGED <<parseVars, promptVars, authVars, serviceVars, formVars, testCases, isLoading, error, storage, job,
                 shared, owner, now>>

HandleLogin == HandleLoginOf(Users)

\* (mutant) logging out removes the user's persisted history
HandleLogoutForgetting ==
  /\ currentUser # NoUser
  /\ currentUser' = NoUser
  /\ prdText' = << >>
  /\ figmaLink' = << >>
  /\ focusPrompt' = << >>
  /\ images' = << >>
  /\ testCases' = << >>
  /\ error' = ""
  /\ history' = << >>
  /\ shared' = 0
  /\ storage' = [storage EXCEPT ![currentUser] = << >>]
  /\ UNCHANGED <<parseVars, promptVars, authVars, serviceVars, isLoading, job, owner, now>>

\* handleLogout
HandleLogout ==
  /\ currentUser # NoUser
  /\ currentUser' = NoUser
  /\ prdText' = << >>
  /\ figmaLink' = << >>
  /\ focusPrompt' = << >>
  /\ images' = << >>
  /\ testCases' = << >>
  /\ error' = ""
  /\ history' = << >>
  /\ shared' = 0
  /\ UNCHANGED <<parseVars, promptVars, authVars, serviceVars, isLoading, storage, job, owner, now>>

\* setPrdText from the input area
SetPrdText ==
  /\ currentUser # NoUser
  /\ \E t \in {<< >>, <<"d">>} : prdText' = t /\ t # prdText
  /\ UNCHANGED <<parseVars, promptVars, authVars, serviceVars, currentUser, figmaLink, focusPrompt, images,
                 testCases, isLoading, error, history, storage, job, shared, owner, now>>

\* setImages from the input area
SetImages ==
  /\ currentUser # NoUser
  /\ \E imgs \in {<< >>, <<"p">>} : images' = imgs /\ imgs # images
  /\ UNCHANGED <<parseVars, promptVars, authVars, serviceVars, currentUser, prdText, figmaLink, focusPrompt,
                 testCases, isLoading, error, history, storage, job, shared, owner, now>>

\* the message of the exception localStorage.setItem throws when the quota is exceeded
ErrQuota == "QuotaExceededError"

\* saveHistory(updatedHistory) as closed over the user u; written: setItem
\* stored the list (otherwise it threw, after setHistory)
SaveHistory(u, updatedHistory, written) ==
  IF u = NoUser THEN UNCHANGED <<history, storage>>
  ELSE /\ history' = updatedHistory
       /\ storage' = IF written THEN [storage EXCEPT ![u] = updatedHistory] ELSE storage

\* (mutant) the generate button is not disabled while loading
HandleGenerateAnytime ==
  /\ currentUser # NoUser
  /\ CanGenerate(prdText, figmaLink, images)
  /\ now <= MaxEntries
  /\ isLoading' = TRUE
  /\ error' = ""
  /\ aiInstance' = (aiInstance \/ apiKey # "")
  /\ req' = Invocation(aiInstance \/ apiKey # "", prdText, figmaLink, images, focusPrompt)
  /\ job' = [pc |-> "generating", user |-> currentUser, prdText |-> prdText,
             figmaLink |-> figmaLink, focusPrompt |-> focusPrompt, images |-> images,
             history |-> history, results |-> << >>]
  /\ UNCHANGED <<parseVars, promptVars, authVars, apiKey, currentUser, formVars, testCases, history, storage,
                 shared, owner, now>>

\* a click on the generate button: handleGenerate up to its await, with the
\* synchronous prefix of generateTestCases
HandleGenerate ==
  /\ currentUser # NoUser
  /\ ~isLoading
  /\ CanGenerate(prdText, figmaLink, images)
  /\ now <= MaxEntries
  /\ isLoading' = TRUE
  /\ error' = ""
  /\ aiInstance' = (aiInstance \/ apiKey # "")
  /\ req' = Invocation(aiInstance \/ apiKey # "", prdText, figmaLink, images, focusPrompt)
  /\ job' = [pc |-> "generating", user |-> currentUser, prdText |-> prdText,
             figmaLink |-> figmaLink, focusPrompt |-> focusPrompt, images |-> images,
             history |-> history, results |-> << >>]
  /\ UNCHANGED <<parseVars, promptVars, authVars, apiKey, currentUser, formVars, testCases, history, storage,
                 shared, owner, now>>

\* the awaited generateTestCases settles (its promise is consumed): the catch
\* block on an error; on a result setTestCases and, without images, the new
\* entry and saveHistory
GenerateSettled ==
  /\ job.pc = "generating"
  /\ Settled(req)
  /\ IF req.pc = "thrown"
     THEN /\ error' = req.err
          /\ isLoading' = FALSE
          /\ job' = NoJob
          /\ UNCHANGED <<testCases, history, storage, shared, owner, now>>
     ELSE /\ testCases' = WithStatus(req.val.items)
          /\ shared' = now
          /\ IF Len(job.images) > 0
             THEN /\ job' = [job EXCEPT !.pc = "encodingHistory",
                                        !.results = WithStatus(req.val.items)]
                  /\ UNCHANGED <<isLoading, error, history, storage, owner, now>>
             ELSE /\ \E written \in BOOLEAN :
                        /\ SaveHistory(job.user,
                              <<NewEntry(now, job.prdText, job.figmaLink, job.focusPrompt,
                                         << >>, WithStatus(req.val.items))>> \o job.history,
                              written)
                        /\ error' = IF written THEN error ELSE ErrQuota
                  /\ owner' = Append(owner, job.user)
                  /\ now' = now + 1
                  /\ isLoading' = FALSE
                  /\ job' = NoJob
  /\ req' = NoReq
  /\ UNCHANGED <<parseVars, promptVars, authVars, apiKey, aiInstance, currentUser, formVars>>

\* the awaited Promise.all of fileToBase64 resolves: the new entry, saveHistory
HistoryImagesEncoded ==
  /\ job.pc = "encodingHistory"
  /\ \E written \in BOOLEAN :
        /\ SaveHistory(job.user,
              <<NewEntry(now, job.prdText, job.figmaLink, job.focusPrompt,
                         ImageDatas(job.images), job.results)>> \o job.history,
              written)
        /\ error' = IF written THEN error ELSE ErrQuota
  /\ owner' = Append(owner, job.user)
  /\ now' = now + 1
  /\ isLoading' = FALSE
  /\ job' = NoJob
  /\ UNCHANGED <<parseVars, promptVars, authVars, serviceVars, currentUser, formVars, testCases, shared>>

\* handleSelectHistory(id)
HandleSelectHistory ==
  /\ currentUser # NoUser
  /\ \E n \in 1..Len(history) :
        LET entry == history[CHOOSE m \in 1..Len(history) : history[m].id = history[n].id
                                  /\ \A k \in 1..(m-1) : history[k].id # history[n].id]
        IN  /\ prdText' = entry.prdText
            /\ figmaLink' = entry.figmaLink
            /\ focusPrompt' = entry.focusPrompt
            /\ testCases' = WithStatusKept(entry.testCases)
            /\ error' = ""
            /\ images' = [k \in 1..Len(entry.images) |-> entry.images[k].name]
  /\ shared' = 0
  /\ UNCHANGED <<parseVars, promptVars, authVars, serviceVars, currentUser, isLoading, history, storage, job,
                 owner, now>>

\* handleDeleteHistory(id)
HandleDeleteHistoryOf(id) ==
  /\ currentUser # NoUser
  /\ \E written \in BOOLEAN : SaveHistory(currentUser, WithoutId(history, id), written)
  /\ UNCHANGED <<parseVars, promptVars, authVars, serviceVars, currentUser, formVars, testCases, isLoading, error,
                 job, shared, owner, now>>

\* the delete button of one of the entries listed in the sidebar
HandleDeleteHistory == \E n \in 1..Len(history) : HandleDeleteHistoryOf(history[n].id)

\* handleClearHistory, the confirmation accepted
HandleClearHistory ==
  /\ currentUser # NoUser
  /\ history # << >>
  /\ \E written \in BOOLEAN : SaveHistory(currentUser, << >>, written)
  /\ UNCHANGED <<parseVars, promptVars, authVars, serviceVars, currentUser, formVars, testCases, isLoading, error,
                 job, shared, owner, now>>

\* (newTestCases[index] as any)[field] = value, on the object itself
Assigned(tc, field, value) == PutMember(tc, field, StrVal(value))

\* the list h after the assignment, as far as its entry with this id holds
\* the object assigned to
AssignedIn(h, id, index, field, value) ==
  [n \in 1..Len(h) |->
     IF h[n].id = id /\ index <= Len(h[n].testCases)
     THEN [h[n] EXCEPT !.testCases[index] = Assigned(@, field, value)]
     ELSE h[n]]

\* updateTestCase(index, field, value) from the table, shown when not loading
UpdateTestCase ==
  /\ currentUser # NoUser
  /\ ~isLoading
  /\ \E index \in 1..Len(testCases), field \in {KeyStatus}, value \in {<<"X">>} :
        /\ Get(testCases[index], field) # StrVal(value)
        /\ testCases' = [testCases EXCEPT ![index] = Assigned(@, field, value)]
        /\ history' = AssignedIn(history, shared, index, field, value)
  /\ UNCHANGED <<parseVars, promptVars, authVars, serviceVars, currentUser, formVars, isLoading, error, storage,
                 job, shared, owner, now>>

Init == ParseIdle /\ PromptIdle /\ ServiceInit /\ AppInit

Next ==
  \/ HandleLogin
  \/ HandleLogout
  \/ SetPrdText
  \/ SetImages
  \/ HandleGenerate
  \/ EncodeDone
  \/ AppRespond
  \/ GenerateSettled
  \/ HistoryImagesEncoded
  \/ HandleSelectHistory
  \/ HandleDeleteHistory
  \/ HandleClearHistory
  \/ UpdateTestCase

Spec == Init /\ [][Next]_vars

\* --- App used by one identity only ------------------------------------------

\* the one user of the single-identity runs is a@x.io
NextSession ==
  \/ HandleLoginOf({"a@x.io"})
  \/ HandleLogout
  \/ SetPrdText
  \/ SetImages
  \/ HandleGenerate
  \/ EncodeDone
  \/ AppRespond
  \/ GenerateSettled
  \/ HistoryImagesEncoded
  \/ HandleSelectHistory
  \/ HandleDeleteHistory
  \/ HandleClearHistory
  \/ UpdateTestCase

SpecSession == Init /\ [][NextSession]_vars

\* --- Auth: sign-up and log-in ------------------------------------------------

\* String.prototype.toLowerCase, over the letters the emails are written with
Lower(t) == [n \in 1..Len(t) |-> IF t[n] = "A" THEN "a" ELSE IF t[n] = "B" THEN "b" ELSE t[n]]

\* email.trim().toLowerCase()
NormalizedEmail(email) == Lower(Trim(email))

\* /\S+@\S+\.\S+/.test(t)
ValidEmail(t) ==
  \E i \in 2..Len(t), j \in 3..(Len(t) - 1) :
     /\ t[i] = "@" /\ t[i - 1] \notin WS
     /\ t[j] = "." /\ i + 1 < j /\ t[j + 1] \notin WS
     /\ \A k \in (i + 1)..(j - 1) : t[k] \notin WS

\* the string made of the characters of t
RECURSIVE Text(_)
Text(t) == IF t = << >> THEN "" ELSE t[1] \o Text(Tail(t))

ErrAccountExists == "An account with this email already exists."

\* what is typed into the email field
AuthEmails ==
  { <<"a", "@", "x", ".", "i", "o">>,
    <<" ", "A", "@", "x", ".", "i", "o">>,
    <<"b", "@", "x", ".", "i", "o">>,
    <<"a", "@", "x">>,
    <<" ">> }

\* what is typed into the password field
AuthPasswords == {"", "pw", "Pw", "PW"}

\* (mutant) no stored account is ever found
AccountsOfNone(us, email) == {}

\* (mutant) every stored account is taken for one with this email
AccountsOfAny(us, email) == 1..Len(us)

\* the stored accounts u with u.email === normalizedEmail (find takes the
\* first, some tells whether there is one)
AccountsOf(us, email) == {n \in 1..Len(us) : us[n].email = email}

\* handleSubmit with the form in log-in (isLogin) or sign-up mode; written:
\* setItem stored the user list (otherwise it threw). A successful
\* submission calls onLogin, which is handleLogin, and the history loads.
HandleSubmitOf(isLogin, email, password, written) ==
  /\ currentUser = NoUser
  /\ LET normalizedEmail == NormalizedEmail(email)
         found == AccountsOf(users, normalizedEmail)
         user  == users[CHOOSE n \in found : \A k \in found : n <= k]
         failed(msg) == authError' = msg /\ UNCHANGED <<users, currentUser, history>>
     IN  IF normalizedEmail = << >> \/ password = "" THEN failed("Email and password are required.")
         ELSE IF ~ValidEmail(normalizedEmail) THEN failed("Please enter a valid email address.")
         ELSE IF isLogin
              THEN IF found # {} /\ user.password = password
                   THEN /\ currentUser' = Text(user.email)
                        /\ history' = storage[Text(user.email)]
                        /\ authError' = ""
                        /\ UNCHANGED users
                   ELSE failed("Invalid email or password.")
         ELSE IF found # {} THEN failed(ErrAccountExists)
         ELSE IF ~written THEN failed("An unexpected error occurred. Please try again.")
         ELSE /\ users' = Append(users, [email |-> normalizedEmail, password |-> password])
              /\ currentUser' = Text(normalizedEmail)
              /\ history' = storage[Text(normalizedEmail)]
              /\ authError' = ""
  /\ UNCHANGED <<parseVars, promptVars, serviceVars, formVars, testCases, isLoading, error, storage,
                 job, shared, owner, now>>

\* a submission of the Auth form
HandleSubmit ==
  \E isLogin \in BOOLEAN, email \in AuthEmails, password \in AuthPasswords, written \in BOOLEAN :
     HandleSubmitOf(isLogin, email, password, written)

NextAuth == HandleSubmit \/ HandleLogout

SpecAuth == Init /\ [][NextAuth]_vars

\* ------------------------------------------------------------------------
\* Properties of the normalizer (checked under SpecParse)
\* ------------------------------------------------------------------------

\* the values of a sequence of object texts, each parsed on its own
ValuesOf(objs) == [n \in 1..Len(objs) |-> JSONParse(objs[n]).val]

\* the raw text is an unfenced array cut off inside an object after >= 1 complete objects
TruncatedArray ==
  /\ input.fam = "arr"
  /\ input.fence = "none"
  /\ input.partial # << >>
  /\ Len(input.objs) >= 1

SameResult(a, b) == a.threw = b.threw /\ a.err = b.err /\ a.val = b.val

\* C1 (as stated): a valid array of objects cut off inside an object after
\* k >= 1 complete objects is normalized, without error, to exactly those k
\* objects in their order.
C1_TruncatedYieldsComplete ==
  (ppc = "done" /\ TruncatedArray)
    => (~outcome.threw /\ outcome.val = ArrVal(ValuesOf(input.objs)))

\* C1 (amended): the same, provided the cut-off fragment of the last object
\* holds no "}" character.
C1_TruncatedYieldsCompleteNoBrace ==
  (ppc = "done" /\ TruncatedArray /\ "}" \notin Range(input.partial))
    => (~outcome.threw /\ outcome.val = ArrVal(ValuesOf(input.objs)))

C1_Witness ==
  /\ ppc = "done" /\ TruncatedArray /\ "}" \notin Range(input.partial)
  /\ Len(input.objs) = 2
  /\ outcome.steps = <<"direct", "locate", "repair">>
  /\ Len(outcome.val.items) = 2

\* C2 (as stated): a payload between code fences (bare or tagged json, the
\* closing fence present) is normalized to the same records, or fails the
\* same way, as the payload itself.
C2_FencedSameAsUnwrapped ==
  (ppc = "done" /\ input.fence # "none")
    => SameResult(outcome, RobustJsonParse(input.payload))

\* C2 (amended): the same, for every payload that does not itself begin
\* with a code fence and that, put directly behind an untagged fence, does
\* not begin with the letters json.
PlainPayload ==
  /\ ~StartsWith(Trim(input.payload), Fence)
  /\ ~(input.fence = "bare" /\ StartsWith(input.gap \o input.payload, <<"j", "s", "o", "n">>))

C2_FencedPlainSameAsUnwrapped ==
  (ppc = "done" /\ input.fence # "none" /\ PlainPayload)
    => SameResult(outcome, RobustJsonParse(input.payload))

C2_Witness ==
  /\ ppc = "done" /\ input.fence = "json" /\ PlainPayload
  /\ input.fam = "arr" /\ Len(input.objs) = 2 /\ input.tail = <<"]">>
  /\ ~outcome.threw /\ Len(outcome.val.items) = 2

\* the errors that say the response is no array
NotAnArrayErrors == {ErrNoArray, ErrNotList}

\* C3: a non-empty raw text without "[" fails normalization with a
\* not-an-array error: robustJsonParse throws it when the direct parse
\* fails, generateTestCases rejects the non-array value when it succeeds.
C3_NoBracketNotAnArray ==
  (ppc = "done" /\ Raw(input) # << >> /\ "[" \notin Range(Raw(input)))
    => /\ normalized.threw
       /\ normalized.val = NoVal
       /\ normalized.err \in NotAnArrayErrors
       /\ outcome.threw => outcome.err = ErrNoArray
       /\ ~outcome.threw => (~IsArray(outcome.val) /\ normalized.err = ErrNotList)

C3_Witness ==
  /\ ppc = "done" /\ Raw(input) # << >> /\ "[" \notin Range(Raw(input))
  /\ ~outcome.threw /\ outcome.val.k = "obj"
  /\ normalized.threw /\ normalized.err = ErrNotList

\* C4: a raw text that fails the direct parse, holds a "[" and has no "}"
\* after the first "[" is normalized to the empty sequence without error,
\* and so is the text "[]".
C4_NoObjectIsEmptySequence ==
  ppc = "done" =>
    /\ ( /\ outcome.steps # <<"direct">>
         /\ "[" \in Range(Raw(input))
         /\ LastIndexOf(Raw(input), "}") < IndexOf(Raw(input), "[") )
       => (~outcome.threw /\ outcome.val = ArrVal(<< >>))
    /\ Raw(input) = <<"[", "]">> => (~outcome.threw /\ outcome.val = ArrVal(<< >>))

C4_Witness ==
  /\ ppc = "done"
  /\ Raw(input) = <<"}", "[", "1">>
  /\ outcome.steps = <<"direct", "locate">>
  /\ outcome.val = ArrVal(<< >>)

\* the raw text is an unfenced, closed array of complete objects
CompleteArray ==
  /\ input.fam = "arr"
  /\ input.fence = "none"
  /\ input.partial = << >>
  /\ input.tail = <<"]">>

\* C5: a well-formed JSON array is returned as parsed, by the direct parse
\* alone: as many elements as the array has top-level objects, each
\* unchanged, in the same order.
C5_WellFormedArrayUnchanged ==
  ppc = "done" =>
    /\ CompleteArray
         => outcome = Returned(ArrVal(ValuesOf(input.objs)), <<"direct">>)
    /\ (JSONParse(Raw(input)).ok /\ IsArray(JSONParse(Raw(input)).val))
         => outcome = Returned(JSONParse(Raw(input)).val, <<"direct">>)

C5_Witness ==
  /\ ppc = "done" /\ CompleteArray
  /\ Len(input.objs) = 2 /\ input.objs[1] # input.objs[2]
  /\ outcome.steps = <<"direct">>
  /\ Len(outcome.val.items) = 2

\* the direct parse and the parse of the candidate (first "[" through last
\* "}" plus "]") both fail
BothParsesFail ==
  LET text == StripFences(Trim(Raw(input)))
      si   == IndexOf(text, "[")
      lb   == LastIndexOf(text, "}")
  IN  /\ ~JSONParse(text).ok
      /\ si # -1
      /\ lb >= si
      /\ ~JSONParse(SubSeq(text, si + 1, lb + 1) \o <<"]">>).ok

SingleObjectResponse ==
  /\ req.response.kind = "text"
  /\ JSONParse(req.response.text).ok
  /\ JSONParse(req.response.text).val.k = "obj"

\* C7: a response text that parses to a single JSON object is normalized to
\* the one-element sequence holding that object instead of failing.
C7_SingleObjectWrapped ==
  (Settled(req) /\ SingleObjectResponse)
    => /\ req.pc = "returned"
       /\ req.val = ArrVal(<<JSONParse(req.response.text).val>>)

\* the generation call returned empty or absent text
EmptyResponse ==
  /\ req.response.kind \in {"text", "absent"}
  /\ req.response.kind = "text" => req.response.text = << >>

\* C9: when the generation call returns empty or absent text, generateTestCases
\* throws the empty-response error and robustJsonParse has not been called.
C9_EmptyResponseBeforeParsing ==
  (Settled(req) /\ EmptyResponse)
    => /\ req.pc = "thrown"
       /\ req.err = ErrEmpty
       /\ req.parses = 0
       /\ req.val = NoVal

C9_Witness ==
  /\ req.pc = "thrown"
  /\ req.response = RText(<< >>)
  /\ req.calls = 1
  /\ req.err = ErrEmpty

\* document text and design link are empty or blank and no image is attached
BlankRequest ==
  /\ req.pc # "idle"
  /\ Trim(req.prdText) = << >>
  /\ Trim(req.figmaLink) = << >>
  /\ req.imageFiles = << >>

\* nothing was encoded and no generation call was issued
NothingSent == req.encoded = 0 /\ req.calls = 0 /\ req.parts = << >>

\* C10 (as stated): a request without document text, link and images is
\* rejected with the input-validation error before any attachment is
\* encoded and before the generation call is issued.
C10_BlankRequestRejectedAsInvalid ==
  BlankRequest => (req.pc = "thrown" /\ req.err = ErrNoInput /\ NothingSent)

\* C10 (amended): such a request is rejected before any attachment is
\* encoded and before the generation call is issued, with the
\* input-validation error when an API key is configured and with the
\* API-key-configuration error of getAiInstance when none is.
C10_BlankRequestRejectedBeforeCall ==
  BlankRequest
    => /\ req.pc = "thrown"
       /\ NothingSent
       /\ req.err = IF apiKey # "" THEN ErrNoInput ELSE ErrApiKeyMissing

C10_Witness ==
  /\ BlankRequest
  /\ req.prdText = <<" ">>
  /\ req.pc = "thrown"
  /\ req.err = ErrNoInput
  /\ aiInstance

\* the Errors the try block of generateTestCases throws itself
NormalizationErrors == {ErrEmpty, ErrNotList, ErrNoArray, ErrMalformed}

\* C11: an Error of the generation call whose message holds the signature
\* "API key not valid" reaches the caller as the fixed invalid-API-key
\* message; every other Error of the call, and every Error of the
\* normalization, reaches the caller with its own message.
C11_OnlyInvalidKeyReclassified ==
  (req.pc = "thrown" /\ req.response.kind \in {"error", "text", "absent"})
    => /\ (req.response.kind = "error" /\ IncludesApiKeyNotValid(req.response.msg))
            => req.err = ErrApiKeyInvalid
       /\ (req.response.kind = "error" /\ ~IncludesApiKeyNotValid(req.response.msg))
            => req.err = req.response.msg
       /\ req.response.kind # "error"
            => /\ req.err \in NormalizationErrors
               /\ req.err = NormalizeResponse(req.response).err

C11_Witness ==
  /\ req.pc = "thrown"
  /\ req.response = RError(MsgApiKeyNotValid)
  /\ req.err = ErrApiKeyInvalid
  /\ req.calls = 1

\* ------------------------------------------------------------------------
\* Properties of the App (checked under Spec)
\* ------------------------------------------------------------------------

\* a record made from a payload object carries the default of each of the
\* three enum fields the payload lacked
DefaultsCarried(payload, rec) ==
  /\ Get(payload, KeyDomain) = NoVal => Get(rec, KeyDomain) = Functional
  /\ Get(payload, KeySuiteType) = NoVal => Get(rec, KeySuiteType) = Regression
  /\ Get(payload, KeyType) = NoVal => Get(rec, KeyType) = Positive

\* the table shows the default of each of the three enum fields the payload lacked
DefaultsShown(payload, rec) ==
  /\ Get(payload, KeyDomain) = NoVal => DomainBadge(rec) = Functional
  /\ Get(payload, KeySuiteType) = NoVal => SuiteTypeBadge(rec) = Regression
  /\ Get(payload, KeyType) = NoVal => TypeBadge(rec) = Positive

\* C6: when a generation succeeds, every record whose payload object lacked
\* domain, suiteType or type carries Functional, Regression or Positive for
\* it: as returned by generateTestCases, as displayed, and as stored in the
\* new history entry.
C6_MissingEnumsDefaulted ==
  [][ (job.pc = "generating" /\ req.pc = "returned" /\ job'.pc # "generating")
        => \A n \in 1..Len(req.val.items) :
              /\ DefaultsCarried(req.val.items[n], req.val.items[n])
              /\ DefaultsShown(req.val.items[n], testCases'[n])
              /\ history' # history
                   => DefaultsCarried(req.val.items[n], history'[1].testCases[n]) ]_vars

\* C12: a generate request issues at most one generation call; after a
\* failed call, an empty response or a failed normalization the call is not
\* issued again, and the request ends with the error displayed.
C12_NoAutomaticRetry ==
  [][/\ req'.calls <= 1
     /\ req.pc = "thrown" => req'.pc \in {"thrown", "idle"}
     /\ (job.pc = "generating" /\ req.pc = "thrown" /\ job' # job)
          => (error' = req.err /\ job'.pc = "idle" /\ ~isLoading' /\ req'.calls = 0)]_vars

C12_Witness ==
  /\ job.pc = "generating"
  /\ req.pc = "thrown"
  /\ req.calls = 1
  /\ req.response = RError(MsgFetchFailed)

\* the step in which a handleGenerate call ends
RequestEnds == job.pc # "idle" /\ job'.pc = "idle"

\* the step in which a handleGenerate call ends with its history entry made
RequestEndsWithEntry ==
  /\ RequestEnds
  /\ (job.pc = "generating" /\ req.pc = "returned") \/ job.pc = "encodingHistory"

\* C13: when a generate request ends with an error message displayed, the
\* displayed test cases and the history, in memory and persisted, are what
\* they were before (stated for the step in which the request ends).
C13_ErrorKeepsNothing ==
  [][(RequestEnds /\ error' # "")
       => (testCases' = testCases /\ history' = history /\ storage' = storage)]_vars

AllUntested(cases) == \A n \in 1..Len(cases) : Get(cases[n], KeyStatus) = Untested

\* C14: right after a successful generation every displayed test case and
\* every test case of the new history entry has the status Untested, and the
\* value generateTestCases returned is the parsed payload with nothing set.
C14_StatusUntestedAfterGeneration ==
  [][/\ (job.pc = "generating" /\ req.pc = "returned" /\ job'.pc # "generating")
          => /\ AllUntested(testCases')
             /\ req.val = RobustJsonParse(req.response.text).val
     /\ RequestEndsWithEntry
          => (history' # << >> /\ AllUntested(history'[1].testCases))]_vars

C14_Witness ==
  /\ ~isLoading /\ job.pc = "idle"
  /\ history # << >> /\ history[1].id = shared
  /\ testCases # << >> /\ AllUntested(testCases)
  /\ AllUntested(history[1].testCases)
  /\ Get(testCases[1], KeyId) = StrVal(<<"1">>)

\* C15: a successful generation by the identity logged in puts one new
\* entry, holding the request's fields and test cases, in front of the
\* history list, the entries present before following it unchanged.
C15_EntryPutInFront ==
  [][(RequestEndsWithEntry /\ currentUser = job.user)
       => /\ Len(history') = Len(history) + 1
          /\ Tail(history') = history
          /\ history'[1].prdText = job.prdText
          /\ history'[1].testCases =
               (IF job.pc = "encodingHistory" THEN job.results ELSE testCases')]_vars

\* C16: editing a displayed test case changes no history entry.
C16_EditLeavesHistory == [][UpdateTestCase => history' = history]_vars

\* every entry of the list h was created by a request of the user u
OwnedBy(h, u) == \A n \in 1..Len(h) : owner[h[n].id] = u

\* C17: the store of an identity holds only entries generated by that
\* identity, and so does the history shown while that identity is logged in.
C17_StoresNeverShared ==
  /\ \A u \in Users : OwnedBy(storage[u], u)
  /\ currentUser # NoUser => OwnedBy(history, currentUser)

\* C18: after every add, delete and clear done while an identity is logged
\* in, the list persisted under that identity's key is the in-memory list.
C18_PersistedIsInMemory ==
  [][((RequestEndsWithEntry \/ HandleDeleteHistory \/ HandleClearHistory) /\ currentUser # NoUser)
       => storage'[currentUser] = history']_vars

\* ------------------------------------------------------------------------
\* Properties of createPrompt (checked under SpecPrompt)
\* ------------------------------------------------------------------------

\* how often the token tok occurs in the text t
Count(t, tok) == Cardinality({n \in 1..Len(t) : t[n] = tok})

\* the text t contains sub as a contiguous piece
Occurs(sub, t) == \E i \in 1..(Len(t) - Len(sub) + 1) : SubSeq(t, i, i + Len(sub) - 1) = sub

\* the heading that opens the third section of a call's text
ThirdHeading(call) == IF call.imageCount > 0 THEN ImageHeadingOpen ELSE ImageHeading

\* the three material sections are all there, in the order 1, 2, 3
SectionsInOrder(call) ==
  /\ 0 <= IndexOf(call.text, PrdHeading)
  /\ IndexOf(call.text, PrdHeading) < IndexOf(call.text, FigmaHeading)
  /\ IndexOf(call.text, FigmaHeading) < IndexOf(call.text, ThirdHeading(call))

\* the section under the heading h is the marker and nothing else
MarkerSection(call, h) == Occurs(<<h, NL, NotProvided, NL>>, call.text)

\* how many of the three materials are empty
EmptyMaterials(call) ==
  (IF call.prdText = << >> THEN 1 ELSE 0) + (IF call.figmaLink = << >> THEN 1 ELSE 0)
    + (IF call.imageCount = 0 THEN 1 ELSE 0)

SectionsAsClaimed(call) ==
  /\ SectionsInOrder(call)
  /\ MarkerSection(call, PrdHeading) <=> call.prdText = << >>
  /\ MarkerSection(call, FigmaHeading) <=> call.figmaLink = << >>
  /\ MarkerSection(call, ImageHeading) <=> call.imageCount = 0
  /\ Count(call.text, NotProvided) = EmptyMaterials(call)
  /\ call.prdText # << >> => Occurs(call.prdText, call.text)

\* none of the caller's texts holds the marker itself
MarkerFree(call) ==
  NotProvided \notin (Range(call.prdText) \cup Range(call.figmaLink) \cup Range(call.focusPrompt))

\* C19 (as stated): for every combination of empty and non-empty document
\* text, design link and image count the text of createPrompt holds the
\* sections 1, 2, 3 in that order, a section is the "Not provided." marker
\* exactly when its input is empty, the marker occurs once per empty input,
\* and a non-empty document text appears verbatim.
C19_SectionsAlwaysMarked == lastCall.called => SectionsAsClaimed(lastCall)

\* C19 (amended): the same, for document text, design link and focus hint
\* that do not themselves hold the text "Not provided.".
C19_SectionsMarkedForPlainTexts ==
  (lastCall.called /\ MarkerFree(lastCall)) => SectionsAsClaimed(lastCall)

C19_Witness ==
  /\ lastCall.called /\ MarkerFree(lastCall)
  /\ lastCall.prdText = <<"d">> /\ lastCall.figmaLink = << >> /\ lastCall.imageCount = 0
  /\ Count(lastCall.text, NotProvided) = 2
  /\ Occurs(<<"d">>, lastCall.text)

SameArguments(a, b) ==
  /\ a.prdText = b.prdText
  /\ a.figmaLink = b.figmaLink
  /\ a.imageCount = b.imageCount
  /\ a.focusPrompt = b.focusPrompt

C21_PartsInAttachmentOrder ==
  req.calls > 0
    => /\ Len(req.parts) = 1 + Len(req.imageFiles)
       /\ req.parts[1] = TextPart(CreatePrompt(req.prdText, req.figmaLink,
                                               Len(req.imageFiles), req.focusPrompt))
       /\ \A i \in 1..Len(req.imageFiles) :
             req.parts[i + 1] = FileToGenerativePart(req.imageFiles[i])

C21_Witness ==
  /\ req.pc = "calling"
  /\ req.imageFiles = <<"p", "q">>
  /\ Len(req.parts) = 3
  /\ req.parts[2].data = "cA=="
  /\ req.parts[3].data = "cQ=="

\* the request passed the validation: its instruction text has been built
Validated == req.parts # << >>

\* all three material sections of the request's instruction text read
\* "Not provided."
AllSectionsMarked ==
  /\ MarkerSection(req.parts[1], PrdHeading)
  /\ MarkerSection(req.parts[1], FigmaHeading)
  /\ MarkerSection(req.parts[1], ImageHeading)

\* C25 (as stated): the instruction text of every request that passes the
\* validation has a material section that is not the "Not provided." marker.
C25_ValidatedHasMaterial == Validated => ~AllSectionsMarked

\* C25 (amended): the same, for requests whose design link does not hold the
\* text "Not provided." itself.
C25_ValidatedPlainHasMaterial ==
  (Validated /\ NotProvided \notin Range(req.figmaLink)) => ~AllSectionsMarked

\* blank document text, a link, no image: validated through the link, and
\* the untrimmed blank text makes a section of its own
C25_Witness ==
  /\ Validated
  /\ req.prdText = <<" ">> /\ req.figmaLink = <<"f">> /\ req.imageFiles = << >>
  /\ ~MarkerSection(req.parts[1], PrdHeading)
  /\ ~MarkerSection(req.parts[1], FigmaHeading)
  /\ MarkerSection(req.parts[1], ImageHeading)

\* ------------------------------------------------------------------------
\* Properties of the normalizer's records (checked under SpecParse)
\* ------------------------------------------------------------------------

\* the record carries a non-empty testCaseId
HasId(rec) == Get(rec, KeyId).k = "str" /\ Get(rec, KeyId).s # << >>

\* C22: every object in the sequence a successful normalization returns
\* carries a non-empty id (testCaseId).
C22_EveryRecordHasId ==
  (ppc = "done" /\ ~normalized.threw)
    => \A n \in 1..Len(normalized.val.items) :
          normalized.val.items[n].k = "obj" => HasId(normalized.val.items[n])

\* the raw text is an array of complete objects followed by a trailing comma
\* before the closing bracket, or by junk (without "}") after it
TrailingArray ==
  /\ input.fam = "arr"
  /\ input.partial = << >>
  /\ input.tail \in {<<",", "]">>, <<"]", ",", "j">>}

\* C26: an otherwise valid array with a trailing comma before the closing
\* bracket, or with junk holding no "}" after it, is normalized without
\* error to all its objects in their order.
C26_TrailingCommaOrJunkRecovered ==
  (ppc = "done" /\ TrailingArray)
    => (~outcome.threw /\ outcome.val = ArrVal(ValuesOf(input.objs)))

C26_Witness ==
  /\ ppc = "done" /\ TrailingArray
  /\ input.tail = <<"]", ",", "j">>
  /\ Len(input.objs) = 2 /\ input.objs[1] # input.objs[2]
  /\ outcome.steps = <<"direct", "locate", "repair">>
  /\ Len(outcome.val.items) = 2

\* ------------------------------------------------------------------------
\* Properties of the history under requests in flight (checked under SpecSession)
\* ------------------------------------------------------------------------

\* the ids of the entries of the list h
Ids(h) == {h[n].id : n \in 1..Len(h)}

\* C23: the completion of a generation brings no entry but the new one into
\* the history, in memory and persisted: an entry deleted (or cleared) while
\* the request was in flight is not there afterwards.
C23_DeletedStaysDeleted ==
  [][(RequestEndsWithEntry /\ currentUser = job.user)
       => /\ Ids(history') \subseteq Ids(history) \cup {now}
          /\ Ids(storage'[job.user])
               \subseteq Ids(history) \cup Ids(storage[job.user]) \cup {now}]_vars

\* C24: isLoading is true exactly while a handleGenerate call is in flight;
\* a call starts only when none is in flight and makes isLoading true, and
\* when the call ends, with a result or with an error, isLoading is false.
C24_LoadingWhileInFlight ==
  [][/\ isLoading' <=> job'.pc # "idle"
     /\ HandleGenerate => (~isLoading /\ job.pc = "idle" /\ isLoading')
     /\ RequestEnds => ~isLoading']_vars

C24_Witness ==
  /\ ~isLoading
  /\ job.pc = "idle"
  /\ error = MsgFetchFailed
  /\ history # << >>

\* the entries of h whose id is not id, in the order they have in h
RestOf(h, id) ==
  LET keep == {n \in 1..Len(h) : h[n].id # id}
  IN  [i \in 1..Cardinality(keep) |->
         h[CHOOSE n \in keep : Cardinality({k \in keep : k < n}) = i - 1]]

\* the displayed test cases and the input fields stay as they are
DisplayKept == testCases' = testCases /\ formVars' = formVars

C28_LoginRestoresPersisted ==
  [][/\ (currentUser # NoUser /\ currentUser' = NoUser) => storage' = storage
     /\ (currentUser = NoUser /\ currentUser' # NoUser)
          => (history' = storage[currentUser'] /\ storage' = storage)]_vars

\* logged in again after a generation and a logout
C28_Witness ==
  /\ currentUser = "a@x.io"
  /\ history # << >>
  /\ history = storage[currentUser]
  /\ testCases = << >>
  /\ job.pc = "idle"

NoDuplicateAccounts(us) ==
  \A i, j \in 1..Len(us) :
     NormalizedEmail(us[i].email) = NormalizedEmail(us[j].email) => i = j

\* an account with this normalized email is stored
Registered(email) == \E n \in 1..Len(users) : NormalizedEmail(users[n].email) = email

\* C29: the stored user list never holds two accounts with the same
\* normalized email, and a sign-up for an email that has an account is
\* rejected with a message, the user list and the session left as they are.
C29_NoDuplicateAccounts ==
  [][/\ NoDuplicateAccounts(users')
     /\ \A email \in AuthEmails, password \in AuthPasswords, written \in BOOLEAN :
          (HandleSubmitOf(FALSE, email, password, written) /\ Registered(NormalizedEmail(email)))
            => (users' = users /\ currentUser' = currentUser /\ authError' # "")]_vars

C29_Witness ==
  /\ Len(users) = 2
  /\ currentUser = NoUser
  /\ authError = ErrAccountExists

\* C30: a log-in submission starts a session only for a stored account that
\* has the normalized email and exactly the submitted password; a log-in
\* that fails starts no session, and no log-in changes the user list.
C30_LoginOnlyWithStoredPassword ==
  [][\A email \in AuthEmails, password \in AuthPasswords, written \in BOOLEAN :
        HandleSubmitOf(TRUE, email, password, written)
          => /\ users' = users
             /\ currentUser' # NoUser
                  => \E n \in 1..Len(users) :
                        /\ users[n].email = NormalizedEmail(email)
                        /\ users[n].password = password
                        /\ currentUser' = Text(users[n].email)
             /\ currentUser' = NoUser => authError' # ""]_vars

\* a@x.io, who signed up before b@x.io did, is logged in
C30_Witness ==
  /\ currentUser = "a@x.io"
  /\ Len(users) = 2
  /\ Text(users[2].email) = "b@x.io"

====
